---- MODULE Spec2Model ----
(***************************************************************************)
(* Namespace-fingerprint pipeline of the APK open-source-library analysis: *)
(*   make_fingerprints.py          (canonicalization of dotted identifiers, *)
(*                                  detectors, process_one_repo, main)      *)
(*   match_fingerprints_in_apks.py (class index and its cache, prefix       *)
(*                                  closure, matching, main)                *)
(*   summarize_reports.py          (fold of a match report into a summary,  *)
(*                                  main)                                   *)
(*                                                                         *)
(* A Python str whose characters the code inspects (a class descriptor, a  *)
(* namespace prefix, a dotted identifier, a token of a source line) is a   *)
(* sequence of one-character strings.  Fields the code only copies and     *)
(* compares as a whole (host, repository path, url, file path, evidence    *)
(* kind) are TLA+ strings.                                                 *)
(***************************************************************************)
EXTENDS Integers, Sequences, FiniteSets, TLC

VARIABLES
    arg,        \* the str handed to the function under test
    canon,      \* what to_smali_prefix returned for arg
    prefixes,   \* what all_prefixes_for_class returned for arg
    fn,         \* which call site ran: "none" before any
    corpus,     \* rows of fingerprints.csv below its header
    tree,       \* the target's decoded/<sha> directory
    indexFile,  \* classes_index/<sha>.json
    report,     \* reports/<sha>.csv
    summary,    \* summary-reports/<sha>.csv
    ret,        \* the last match_app / summarize_one call and what it returned
    local_path, \* the clone of one repository: its evidence files
    rows_out,   \* what process_one_repo returned for the clone
    args_max_files, \* --max-files of make_fingerprints
    futs,       \* the futures of make_fingerprints.main, in submission order
    loaded,     \* the prefix_map load_fingerprints returned for the corpus file
    faults,     \* how many times a call was stopped or a file changed from outside
    script,     \* which script's main runs its units
    workers,    \* --workers
    bad,        \* the units whose processing raises
    upc,        \* where each unit of main's list is
    wrote,      \* the files each unit's work(...) call has written
    mainWrote,  \* the files main has written outside work(...)
    mainPc      \* where main is

vars == <<arg, canon, prefixes, fn, corpus, tree, indexFile, report, summary, ret,
          local_path, rows_out, args_max_files, futs, loaded, faults,
          script, workers, bad, upc, wrote, mainWrote, mainPc>>

(***************************************************************************)
(* Bounds of the model.                                                    *)
(***************************************************************************)
MaxIdentLen == 5
MaxDescLen == 7
MaxRows == 2
MaxFiles == 2
MaxRepoFiles == 3
MaxRunFiles == 1
MaxFaults == 2
MaxUnits == 3
MaxWorkers == 2

(***************************************************************************)
(* str helpers, each as Python computes it.                                *)
(***************************************************************************)
Strings(alphabet, n) == UNION {[1..k -> alphabet] : k \in 0..n}

Whitespace == {" "}

RECURSIVE LStrip(_, _)
LStrip(s, chars) ==
    IF s # <<>> /\ Head(s) \in chars THEN LStrip(Tail(s), chars) ELSE s

RECURSIVE RStrip(_, _)
RStrip(s, chars) ==
    IF s # <<>> /\ s[Len(s)] \in chars
    THEN RStrip(SubSeq(s, 1, Len(s) - 1), chars)
    ELSE s

\* str.strip() with no argument and str.strip(chars)
Strip(s, chars) == RStrip(LStrip(s, chars), chars)

\* str.replace(old, new) for one-character old and new
Replace(s, old, new) == [i \in 1..Len(s) |-> IF s[i] = old THEN new ELSE s[i]]

StartsWith(s, c) == Len(s) >= 1 /\ s[1] = c

EndsWith(s, c) == Len(s) >= 1 /\ s[Len(s)] = c

Contains(s, c) == \E i \in 1..Len(s) : s[i] = c

\* str.split(sep) for a one-character sep: "" splits into [""]
RECURSIVE Split(_, _)
Split(s, sep) ==
    IF ~Contains(s, sep) THEN <<s>>
    ELSE LET i == CHOOSE j \in 1..Len(s) :
                      s[j] = sep /\ \A k \in 1..(j - 1) : s[k] # sep
         IN  <<SubSeq(s, 1, i - 1)>> \o Split(SubSeq(s, i + 1, Len(s)), sep)

\* s is a strict textual prefix of t
IsStrictPrefix(s, t) == Len(s) < Len(t) /\ SubSeq(t, 1, Len(s)) = s

(***************************************************************************)
(* make_fingerprints.py: canonicalization.                                 *)
(***************************************************************************)
Letters == {"a", "b", "L", "_"}

WordChars == Letters \cup {"0"}

\* The group JAVA_PKG_RE captures from "package <group>;": [a-zA-Z_][\w.]*?
\* up to the optional whitespace before ';'
JAVA_PKG_RE(group) ==
    /\ Len(group) >= 1
    /\ group[1] \in Letters
    /\ \A i \in 2..Len(group) : group[i] \in WordChars \cup {"."}

\* The group MANIFEST_PKG_RE captures from package="<group>": [^"]+
MANIFEST_PKG_RE(group) ==
    /\ Len(group) >= 1
    /\ \A i \in 1..Len(group) : group[i] # "\""

to_smali_prefix(java_pkg) ==
    LET p == Strip(Strip(java_pkg, Whitespace), {"."})
    IN  IF p = <<>> THEN <<>>
        ELSE <<"L">> \o Replace(p, ".", "/") \o <<"/">>

(***************************************************************************)
(* match_fingerprints_in_apks.py: prefix closure of a class descriptor.    *)
(***************************************************************************)
\* The loop of all_prefixes_for_class over parts[:-1], acc being acc[0]
RECURSIVE PrefixLoop(_, _, _)
PrefixLoop(parts, i, acc) ==
    IF i > Len(parts) - 1 THEN <<>>
    ELSE LET next == IF i = 1 THEN <<"L">> \o parts[i] \o <<"/">>
                     ELSE acc \o parts[i] \o <<"/">>
         IN  <<next>> \o PrefixLoop(parts, i + 1, next)

\* A mutant of all_prefixes_for_class: the loop runs over parts, not
\* parts[:-1], and the default-package test is missing
all_prefixes_with_tail(class_desc) ==
    IF ~(StartsWith(class_desc, "L") /\ EndsWith(class_desc, ";")) THEN <<>>
    ELSE LET body == SubSeq(class_desc, 2, Len(class_desc) - 1)
         IN  PrefixLoop(Split(body, "/") \o <<<<>>>>, 1, <<"L">>)

\* A mutant of all_prefixes_for_class: only the package of the class, the
\* longest prefix, is returned
all_prefixes_only_package(class_desc) ==
    IF ~(StartsWith(class_desc, "L") /\ EndsWith(class_desc, ";")) THEN <<>>
    ELSE LET body == SubSeq(class_desc, 2, Len(class_desc) - 1)
             all == PrefixLoop(Split(body, "/"), 1, <<"L">>)
         IN  IF ~Contains(body, "/") THEN <<>> ELSE <<all[Len(all)]>>

all_prefixes_for_class(class_desc) ==
    IF ~(StartsWith(class_desc, "L") /\ EndsWith(class_desc, ";")) THEN <<>>
    ELSE LET body == SubSeq(class_desc, 2, Len(class_desc) - 1)
         IN  IF ~Contains(body, "/") THEN <<>>
             ELSE PrefixLoop(Split(body, "/"), 1, <<"L">>)

(***************************************************************************)
(* match_fingerprints_in_apks.py: the corpus.                              *)
(***************************************************************************)
\* The tuple load_fingerprints stores for one corpus row
FpEntry(row, pref) ==
    [repo_host |-> row.repo_host, repo_path |-> row.repo_path,
     repo_url |-> row.repo_url, libarary_key |-> row.libarary_key,
     library_name |-> row.library_name, smali_prefix |-> pref,
     fingerprint_type |-> row.fingerprint_type,
     repo_file_path |-> row.repo_file_path]

\* pref of a row, and whether load_fingerprints accepts it
RowPrefix(row) == Strip(row.smali_prefix, Whitespace)

AcceptedPrefix(pref) ==
    pref # <<>> /\ StartsWith(pref, "L") /\ EndsWith(pref, "/")

RECURSIVE AcceptedEntries(_)
AcceptedEntries(rows) ==
    IF rows = <<>> THEN <<>>
    ELSE LET pref == RowPrefix(Head(rows))
         IN  (IF AcceptedPrefix(pref) THEN <<FpEntry(Head(rows), pref)>> ELSE <<>>)
                 \o AcceptedEntries(Tail(rows))

\* A mutant of load_fingerprints: prefix_map[key] = [entry], so a later row
\* with the same prefix replaces the earlier ones
load_fingerprints_overwriting(rows) ==
    LET entries == AcceptedEntries(rows)
        keys == {entries[i].smali_prefix : i \in 1..Len(entries)}
        last(k) == CHOOSE i \in 1..Len(entries) :
                       /\ entries[i].smali_prefix = k
                       /\ \A j \in (i + 1)..Len(entries) : entries[j].smali_prefix # k
    IN  [k \in keys |-> <<entries[last(k)]>>]

\* A mutant of load_fingerprints: prefix_map.setdefault(key, [entry]), so
\* only the first row of a prefix is kept
load_fingerprints_keeping_first(rows) ==
    LET entries == AcceptedEntries(rows)
        keys == {entries[i].smali_prefix : i \in 1..Len(entries)}
    IN  [k \in keys |-> <<SelectSeq(entries, LAMBDA e : e.smali_prefix = k)[1]>>]

\* prefix_map: dict[smali_prefix] -> list of entries, in file order
load_fingerprints(rows) ==
    LET entries == AcceptedEntries(rows)
        keys == {entries[i].smali_prefix : i \in 1..Len(entries)}
    IN  [k \in keys |-> SelectSeq(entries, LAMBDA e : e.smali_prefix = k)]

(***************************************************************************)
(* match_fingerprints_in_apks.py: the class index.                         *)
(***************************************************************************)
MaxScanLines == 20

DotClass == <<".", "c", "l", "a", "s", "s">>

\* CLASS_RE on a line given as its whitespace-separated tokens:
\* ^\s*\.class\s+[^\s]+\s+([^\s]+) needs ".class", one more token, and
\* captures the token after that
CLASS_RE(line) == Len(line) >= 3 /\ line[1] = DotClass

CLASS_RE_group(line) == line[3]

\* The readline loop of index_classes_for_app over one file: the entry of
\* the first matching line among the first 20, or none
RECURSIVE ScanHead(_, _, _)
ScanHead(file, i, limit) ==
    IF i > limit \/ i > Len(file.head) THEN <<>>
    ELSE IF CLASS_RE(file.head[i])
         THEN <<[class |-> CLASS_RE_group(file.head[i]), path |-> file.path]>>
         ELSE ScanHead(file, i + 1, limit)

RECURSIVE ScanFiles(_)
ScanFiles(files) ==
    IF files = <<>> THEN <<>>
    ELSE ScanHead(Head(files), 1, MaxScanLines) \o ScanFiles(Tail(files))

\* t lists the .smali files under the target's smali* directories in walk
\* order; inner marks a file under a smali* directory nested in another.
\* app_dir.rglob("smali*") yields every smali* directory, also a nested
\* one; each is walked with rglob("*.smali"), so the outer walk meets all
\* the files and the walk of a nested directory meets its files again
index_classes_for_app(t) ==
    ScanFiles(t) \o ScanFiles(SelectSeq(t, LAMBDA f : f.inner))

(***************************************************************************)
(* match_fingerprints_in_apks.py: match_app.                               *)
(***************************************************************************)
Sha == "sha1"

\* The row match_app writes for class entry c and fingerprint entry e
MatchRow(c, e) ==
    [app_sha256 |-> Sha, repo_host |-> e.repo_host, repo_path |-> e.repo_path,
     repo_url |-> e.repo_url, libarary_key |-> e.libarary_key,
     library_name |-> e.library_name, smali_prefix |-> e.smali_prefix,
     fingerprint_type |-> e.fingerprint_type,
     class |-> c.class, class_file |-> c.path]

\* A mutant of the dedup key: the prefix is left out
EmittedKeyNoPrefix(r) == <<r.class, r.repo_host, r.repo_path>>

\* A mutant of the dedup key: the class is left out
EmittedKeyNoClass(r) == <<r.smali_prefix, r.repo_host, r.repo_path>>

\* A mutant of the dedup key: the repository is left out
EmittedKeyNoRepo(r) == <<r.class, r.smali_prefix>>

\* A mutant of the dedup key: the evidence kind is added
EmittedKeyWithKind(r) ==
    <<r.class, r.smali_prefix, r.repo_host, r.repo_path, r.fingerprint_type>>

\* key = (clazz, smali_prefix, repo_host, repo_path)
EmittedKey(r) == <<r.class, r.smali_prefix, r.repo_host, r.repo_path>>

RECURSIVE RowsOfEntries(_, _)
RowsOfEntries(c, entries) ==
    IF entries = <<>> THEN <<>>
    ELSE <<MatchRow(c, Head(entries))>> \o RowsOfEntries(c, Tail(entries))

RECURSIVE RowsOfPrefixes(_, _, _)
RowsOfPrefixes(c, prefs, prefix_map) ==
    IF prefs = <<>> THEN <<>>
    ELSE (IF Head(prefs) \in DOMAIN prefix_map
          THEN RowsOfEntries(c, prefix_map[Head(prefs)])
          ELSE <<>>) \o RowsOfPrefixes(c, Tail(prefs), prefix_map)

\* The rows the three nested loops of match_app reach, in loop order
RECURSIVE Candidates(_, _)
Candidates(classes, prefix_map) ==
    IF classes = <<>> THEN <<>>
    ELSE RowsOfPrefixes(Head(classes), all_prefixes_for_class(Head(classes).class),
                        prefix_map)
             \o Candidates(Tail(classes), prefix_map)

\* "if key in emitted: continue", else the row is written and its key added
RECURSIVE WriteUnlessEmitted(_, _)
WriteUnlessEmitted(cands, emitted) ==
    IF cands = <<>> THEN <<>>
    ELSE IF EmittedKey(Head(cands)) \in emitted
         THEN WriteUnlessEmitted(Tail(cands), emitted)
         ELSE <<Head(cands)>>
                  \o WriteUnlessEmitted(Tail(cands), emitted \cup {EmittedKey(Head(cands))})

\* A mutant of MatchRows: emitted outlives the call, so that the keys of the
\* report on disk count as emitted already
MatchRowsKeepingEmitted(prefix_map, classes) ==
    WriteUnlessEmitted(Candidates(classes, prefix_map),
                       {EmittedKey(report.rows[i]) : i \in 1..Len(report.rows)})

\* The rows match_app writes below the header
MatchRows(prefix_map, classes) ==
    WriteUnlessEmitted(Candidates(classes, prefix_map), {})

(***************************************************************************)
(* summarize_reports.py: summarize_one.                                    *)
(***************************************************************************)
\* The evidence kinds make_fingerprints.py writes, in the order sorted() gives
KindOrder ==
    <<"gradle_group_prefix", "java_package", "kotlin_package",
      "manifest_package", "maven_artifact_root", "maven_group_prefix">>

\* key = (repo_host, repo_path, libarary_key, library_name, smali_prefix)
BucketKey(r) ==
    <<r.repo_host, r.repo_path, r.libarary_key, r.library_name, r.smali_prefix>>

\* The keys of buckets in insertion order
RECURSIVE BucketKeys(_, _)
BucketKeys(rows, seen) ==
    IF rows = <<>> THEN <<>>
    ELSE IF BucketKey(Head(rows)) \in seen
         THEN BucketKeys(Tail(rows), seen)
         ELSE <<BucketKey(Head(rows))>>
                  \o BucketKeys(Tail(rows), seen \cup {BucketKey(Head(rows))})

\* The report rows folded into the bucket of key, in report order
Folded(rows, key) == SelectSeq(rows, LAMBDA r : BucketKey(r) = key)

\* A mutant of SampleOf: b["sample"] is set on every row with a class, so
\* the last one stays
SampleOfLast(g) ==
    LET withClass == SelectSeq(g, LAMBDA r : r.class # <<>>)
    IN  IF withClass = <<>> THEN <<<<>>, "">>
        ELSE <<withClass[Len(withClass)].class, withClass[Len(withClass)].class_file>>

\* b["sample"] after the rows g of one bucket: "if clazz: ... if b["sample"]
\* is None: b["sample"] = (clazz, cfile)"; ("", "") is written for None
SampleOf(g) ==
    LET withClass == SelectSeq(g, LAMBDA r : r.class # <<>>)
    IN  IF withClass = <<>> THEN <<<<>>, "">>
        ELSE <<withClass[1].class, withClass[1].class_file>>

\* A mutant of the fold: one classes set is shared by all the buckets, so
\* every row counts the pairs of the whole report
SummaryRowSharedClasses(rows, key) ==
    LET g == Folded(rows, key)
        types == {g[i].fingerprint_type : i \in 1..Len(g)}
        withClass == SelectSeq(g, LAMBDA r : r.class # <<>>)
        allWithClass == SelectSeq(rows, LAMBDA r : r.class # <<>>)
        classes == {<<allWithClass[i].class, allWithClass[i].class_file>> :
                        i \in 1..Len(allWithClass)}
    IN  [app_sha256 |-> Sha,
         repo_host |-> g[1].repo_host,
         repo_path |-> g[1].repo_path,
         repo_url |-> g[Len(g)].repo_url,
         libarary_key |-> g[1].libarary_key,
         library_name |-> g[1].library_name,
         smali_prefix |-> g[1].smali_prefix,
         fingerprint_types |-> SelectSeq(KindOrder, LAMBDA k : k \in types),
         classes_matched |-> Cardinality(classes),
         sample_class |-> SampleOf(g)[1],
         sample_class_file |-> SampleOf(g)[2]]

\* The summary row of one bucket
SummaryRow(rows, key) ==
    LET g == Folded(rows, key)
        types == {g[i].fingerprint_type : i \in 1..Len(g)}
        withClass == SelectSeq(g, LAMBDA r : r.class # <<>>)
        classes == {<<withClass[i].class, withClass[i].class_file>> :
                        i \in 1..Len(withClass)}
    IN  [app_sha256 |-> Sha,
         repo_host |-> g[1].repo_host,
         repo_path |-> g[1].repo_path,
         repo_url |-> g[Len(g)].repo_url,
         libarary_key |-> g[1].libarary_key,
         library_name |-> g[1].library_name,
         smali_prefix |-> g[1].smali_prefix,
         \* "|".join(sorted(...)): the sorted kinds the join separates by '|'
         fingerprint_types |-> SelectSeq(KindOrder, LAMBDA k : k \in types),
         classes_matched |-> Cardinality(classes),
         sample_class |-> SampleOf(g)[1],
         sample_class_file |-> SampleOf(g)[2]]

\* csv.DictReader over the report: no rows for the empty marker
ReadReport(file) == IF file.header THEN file.rows ELSE <<>>

\* The rows summarize_one writes below the header
SummaryRows(rows) ==
    LET keys == BucketKeys(rows, {})
    IN  [i \in 1..Len(keys) |-> SummaryRow(rows, keys[i])]

(***************************************************************************)
(* Files of the pipeline.  A file that does not exist has exists = FALSE.  *)
(***************************************************************************)
\* reports/<sha>.csv and summary-reports/<sha>.csv: header tells the header
\* row from the empty marker match_app writes for a target with no classes
\* partial marks a file whose writer was stopped between open("w") and the
\* end of its rows; nothing in the file tells the code so
NoCsv == [exists |-> FALSE, header |-> FALSE, rows |-> <<>>, partial |-> FALSE]

\* A file a call wrote to its end
WrittenCsv(header, rows) ==
    [exists |-> TRUE, header |-> header, rows |-> rows, partial |-> FALSE]

\* classes_index/<sha>.json.  kind tells what json.loads makes of the text:
\* "list" the list of {"class", "path"} dicts json.dumps wrote, "garbage" a
\* text that is no JSON (json.loads raises), "wrongshape" a JSON list whose
\* items are not such dicts
NoIndex == [exists |-> FALSE, kind |-> "none", entries |-> <<>>]

WrittenIndex(classes) == [exists |-> TRUE, kind |-> "list", entries |-> classes]

\* The last call: its name, its force argument, what it returned (status, n),
\* whether it scanned the decoded tree, and whether json.loads rejected the
\* cache file it read
NoRet == [call |-> "none", force |-> FALSE, status |-> "none", n |-> 0,
          scanned |-> FALSE, rejected |-> FALSE]

Ret(call, force, status, n, scanned, rejected) ==
    [call |-> call, force |-> force, status |-> status, n |-> n,
     scanned |-> scanned, rejected |-> rejected]

\* The pipeline before any step ran on an empty input
PipelineIdle ==
    /\ corpus = <<>>
    /\ tree = <<>>
    /\ indexFile = NoIndex
    /\ report = NoCsv
    /\ summary = NoCsv
    /\ ret = NoRet

pipelineVars == <<corpus, tree, indexFile, report, summary, ret>>

unitVars == <<arg, canon, prefixes, fn>>

UnitIdle ==
    /\ arg = <<>>
    /\ canon = <<>>
    /\ prefixes = <<>>
    /\ fn = "none"

\* --max-files, default=5000
DefaultMaxFiles == 5000

repoVars == <<local_path, rows_out, args_max_files, futs>>

\* No clone, and process_one_repo not called
RepoIdle ==
    /\ local_path = [exists |-> FALSE, files |-> <<>>]
    /\ rows_out = <<>>
    /\ args_max_files = DefaultMaxFiles
    /\ futs = <<>>

\* The variables of the other scripts' runs
poolVars == <<script, workers, bad, upc, wrote, mainWrote, mainPc>>

\* No main of a pool running
PoolIdle ==
    /\ script = "none"
    /\ workers = 0
    /\ bad = {}
    /\ upc = <<>>
    /\ wrote = <<>>
    /\ mainWrote = {}
    /\ mainPc = "none"

restVars == <<repoVars, loaded, faults, poolVars>>

RestIdle == RepoIdle /\ loaded = <<>> /\ faults = 0 /\ PoolIdle

(***************************************************************************)
(* Canonicalization at its call sites: one source line or one manifest     *)
(* attribute whose identifier is arg.                                      *)
(***************************************************************************)
IdentAlphabet == {"a", "L", ".", "/", " "}

InitCanon ==
    /\ arg \in Strings(IdentAlphabet, MaxIdentLen)
    /\ canon = <<>>
    /\ prefixes = <<>>
    /\ fn = "none"
    /\ PipelineIdle
    /\ RestIdle

\* detect_java_kotlin_packages on a line "package <arg>;"
DetectJavaPackage ==
    /\ fn = "none"
    /\ JAVA_PKG_RE(arg)
    /\ canon' = to_smali_prefix(arg)
    /\ fn' = "java_package"
    /\ UNCHANGED <<arg, prefixes, pipelineVars, restVars>>

\* detect_manifest_package on a text holding package="<arg>"
DetectManifestPackage ==
    /\ fn = "none"
    /\ MANIFEST_PKG_RE(arg)
    /\ canon' = to_smali_prefix(arg)
    /\ fn' = "manifest_package"
    /\ UNCHANGED <<arg, prefixes, pipelineVars, restVars>>

NextCanon == DetectJavaPackage \/ DetectManifestPackage

SpecCanon == InitCanon /\ [][NextCanon]_vars

(***************************************************************************)
(* make_fingerprints.py: the detectors and process_one_repo.  A file of    *)
(* the clone is [path, name, ident, artifact]: name is the pattern rglob   *)
(* finds it by, ident the identifier its first matching line (or its first *)
(* groupId tag) declares, <<>> if none does, artifact the text of its      *)
(* first artifactId tag.  files is in the order rglob yields.              *)
(***************************************************************************)
\* The group KT_PKG_RE captures from "package <group>": [a-zA-Z_][\w.]*?
KT_PKG_RE(group) ==
    /\ Len(group) >= 1
    /\ group[1] \in Letters
    /\ \A i \in 2..Len(group) : group[i] \in WordChars \cup {"."}

\* The group of GRADLE_GROUP_ASSIGN and GRADLE_GROUP_STR: [^"']+
GRADLE_GROUP_RE(group) ==
    /\ Len(group) >= 1
    /\ \A i \in 1..Len(group) : group[i] \notin {"\"", "'"}

\* re.match(r"^[a-zA-Z0-9_.-]+$", artifactId)
ARTIFACT_RE(artifactId) ==
    /\ Len(artifactId) >= 1
    /\ \A i \in 1..Len(artifactId) : artifactId[i] \in WordChars \cup {".", "-"}

\* rglob(pattern) over the clone
Rglob(files, name) == SelectSeq(files, LAMBDA f : f.name = name)

\* One detected fingerprint: (smali_prefix, type, file_path)
Fp(smali, typ, path) == [smali |-> smali, typ |-> typ, path |-> path]

\* "if pref: results.append((pref, tname, str(src)))"
IfPrefix(pref, typ, path) ==
    IF pref # <<>> THEN <<Fp(pref, typ, path)>> ELSE <<>>

\* A mutant of ScanSources: only the files with a package declaration count
RECURSIVE ScanSourcesCountingMatches(_, _, _, _)
ScanSourcesCountingMatches(srcs, tname, count, max_files) ==
    IF srcs = <<>> THEN [results |-> <<>>, count |-> count, capped |-> FALSE]
    ELSE IF count >= max_files
    THEN [results |-> <<>>, count |-> count, capped |-> TRUE]
    ELSE LET src == Head(srcs)
             m == IF tname = "java_package"
                  THEN JAVA_PKG_RE(src.ident) ELSE KT_PKG_RE(src.ident)
             here == IF m THEN IfPrefix(to_smali_prefix(src.ident), tname, src.path)
                     ELSE <<>>
             rest == ScanSourcesCountingMatches(Tail(srcs), tname,
                                                IF m THEN count + 1 ELSE count,
                                                max_files)
         IN  [rest EXCEPT !.results = here \o @]

\* One "for src in repo_root.rglob(...)" loop of detect_java_kotlin_packages,
\* entered with count files inspected so far; capped tells that the loop hit
\* "if count >= max_files: return results"
RECURSIVE ScanSources(_, _, _, _)
ScanSources(srcs, tname, count, max_files) ==
    IF srcs = <<>> THEN [results |-> <<>>, count |-> count, capped |-> FALSE]
    ELSE IF count >= max_files
    THEN [results |-> <<>>, count |-> count, capped |-> TRUE]
    ELSE LET src == Head(srcs)
             m == IF tname = "java_package"
                  THEN JAVA_PKG_RE(src.ident) ELSE KT_PKG_RE(src.ident)
             here == IF m THEN IfPrefix(to_smali_prefix(src.ident), tname, src.path)
                     ELSE <<>>
             rest == ScanSources(Tail(srcs), tname, count + 1, max_files)
         IN  [rest EXCEPT !.results = here \o @]

detect_java_kotlin_packages(files, max_files) ==
    LET java == ScanSources(Rglob(files, ".java"), "java_package", 0, max_files)
        kt == ScanSources(Rglob(files, ".kt"), "kotlin_package", java.count,
                          max_files)
    IN  IF java.capped THEN java.results ELSE java.results \o kt.results

RECURSIVE ManifestLoop(_)
ManifestLoop(mans) ==
    IF mans = <<>> THEN <<>>
    ELSE LET man == Head(mans)
         IN  (IF MANIFEST_PKG_RE(man.ident)
              THEN IfPrefix(to_smali_prefix(man.ident), "manifest_package", man.path)
              ELSE <<>>) \o ManifestLoop(Tail(mans))

detect_manifest_package(files) == ManifestLoop(Rglob(files, "AndroidManifest.xml"))

RECURSIVE PomLoop(_)
PomLoop(poms) ==
    IF poms = <<>> THEN <<>>
    ELSE LET pom == Head(poms)
             groupId == Strip(pom.ident, Whitespace)
             artifactId == Strip(pom.artifact, Whitespace)
         IN  (IF groupId # <<>>
              THEN IfPrefix(to_smali_prefix(groupId), "maven_group_prefix", pom.path)
              ELSE <<>>)
             \o (IF ARTIFACT_RE(artifactId)
                 THEN <<Fp(<<"L">> \o Replace(artifactId, ".", "/") \o <<"/">>,
                           "maven_artifact_root", pom.path)>>
                 ELSE <<>>)
             \o PomLoop(Tail(poms))

detect_maven_group_artifact(files) == PomLoop(Rglob(files, "pom.xml"))

RECURSIVE GradleLoop(_)
GradleLoop(gradles) ==
    IF gradles = <<>> THEN <<>>
    ELSE LET gradle == Head(gradles)
         IN  (IF GRADLE_GROUP_RE(gradle.ident)
              THEN IfPrefix(to_smali_prefix(gradle.ident), "gradle_group_prefix",
                            gradle.path)
              ELSE <<>>) \o GradleLoop(Tail(gradles))

detect_gradle_group(files) ==
    GradleLoop(Rglob(files, "build.gradle") \o Rglob(files, "build.gradle.kts"))

\* A mutant of the loop of dedup: of the tuples with one key the last is kept
RECURSIVE DedupKeepingLast(_, _)
DedupKeepingLast(seq, seen) ==
    IF seq = <<>> THEN <<>>
    ELSE IF \E k \in 2..Len(seq) :
                 seq[k].smali = Head(seq).smali /\ seq[k].typ = Head(seq).typ
         THEN DedupKeepingLast(Tail(seq), seen)
         ELSE <<Head(seq)>> \o DedupKeepingLast(Tail(seq), seen)

\* The loop of dedup: "if key in seen: continue", else the tuple is kept
RECURSIVE DedupLoop(_, _)
DedupLoop(seq, seen) ==
    IF seq = <<>> THEN <<>>
    ELSE LET key == <<Head(seq).smali, Head(seq).typ>>
         IN  IF key \in seen
             THEN DedupLoop(Tail(seq), seen)
             ELSE <<Head(seq)>> \o DedupLoop(Tail(seq), seen \cup {key})

dedup(seq) == DedupLoop(seq, {})

\* fps of process_one_repo before dedup: the detectors' results in call order
CollectFingerprints(files, max_files) ==
    detect_java_kotlin_packages(files, max_files)
        \o detect_manifest_package(files)
        \o detect_maven_group_artifact(files)
        \o detect_gradle_group(files)

\* One row of the rows process_one_repo returns
RepoRow(row, fp) ==
    [repo_host |-> row.host, repo_path |-> row.path, repo_url |-> row.url,
     libarary_key |-> row.path, library_name |-> row.name,
     smali_prefix |-> fp.smali, fingerprint_type |-> fp.typ,
     repo_file_path |-> fp.path, evidence_excerpt |-> ""]

\* process_one_repo(row, out_dir, max_files) for a manifest row whose
\* local_path is the clone
process_one_repo(row, clone, max_files) ==
    IF ~clone.exists THEN <<>>
    ELSE LET fps == dedup(CollectFingerprints(clone.files, max_files))
         IN  [i \in 1..Len(fps) |-> RepoRow(row, fps[i])]

(***************************************************************************)
(* Prefix closure on one class descriptor arg.                             *)
(***************************************************************************)
DescAlphabet == {"L", "/", ";", "a"}

InitPrefix ==
    /\ arg \in Strings(DescAlphabet, MaxDescLen)
    /\ canon = <<>>
    /\ prefixes = <<>>
    /\ fn = "none"
    /\ PipelineIdle
    /\ RestIdle

\* match_app's "for pref in all_prefixes_for_class(clazz)" for clazz = arg
CallAllPrefixes ==
    /\ fn = "none"
    /\ prefixes' = all_prefixes_for_class(arg)
    /\ fn' = "all_prefixes_for_class"
    /\ UNCHANGED <<arg, canon, pipelineVars, restVars>>

NextPrefix == CallAllPrefixes

SpecPrefix == InitPrefix /\ [][NextPrefix]_vars

(***************************************************************************)
(* The pipeline on one target: a corpus file and a decoded tree are given, *)
(* then match_fingerprints_in_apks.py and summarize_reports.py run, each   *)
(* any number of times, with or without --force.                           *)
(***************************************************************************)
W_com == <<"c", "o", "m">>

W_example == <<"e", "x", "a", "m", "p", "l", "e">>

W_net == <<"n", "e", "t">>

W_http == <<"h", "t", "t", "p">>

W_Helper == <<"H", "e", "l", "p", "e", "r">>

\* Lcom/example/
P_example == <<"L">> \o W_com \o <<"/">> \o W_example \o <<"/">>

\* Lcom/example/net/
P_net == P_example \o W_net \o <<"/">>

\* LHelper/ : the artifact root of an artifact named Helper
P_Helper == <<"L">> \o W_Helper \o <<"/">>

\* Lcom/example/net/http/Client;
D_Client == P_net \o W_http \o <<"/", "C", "l", "i", "e", "n", "t", ";">>

\* Lcom/example/net/http/Server;
D_Server == P_net \o W_http \o <<"/", "S", "e", "r", "v", "e", "r", ";">>

\* Lcom/example/Util;
D_Util == P_example \o <<"U", "t", "i", "l", ";">>

\* LHelper; : a class of the default package
D_Helper == <<"L">> \o W_Helper \o <<";">>

RepoA ==
    [host |-> "github.com", path |-> "org/repoA",
     url |-> "https://github.com/org/repoA", name |-> "repoA"]

RepoB ==
    [host |-> "github.com", path |-> "org/repoB",
     url |-> "https://github.com/org/repoB", name |-> "repoB"]

\* A row of fingerprints.csv as process_one_repo lays it out
FpRow(repo, prefix, kind) ==
    [repo_host |-> repo.host, repo_path |-> repo.path, repo_url |-> repo.url,
     libarary_key |-> repo.path, library_name |-> repo.name,
     smali_prefix |-> prefix, fingerprint_type |-> kind,
     repo_file_path |-> kind]

RowPool ==
    {FpRow(RepoA, P_net, "java_package"),
     FpRow(RepoA, P_net, "manifest_package"),
     FpRow(RepoA, P_example, "java_package"),
     FpRow(RepoB, P_net, "java_package"),
     FpRow(RepoB, P_Helper, "maven_artifact_root")}

Public == <<"p", "u", "b", "l", "i", "c">>

\* A .smali file whose first line is ".class public <desc>"
SmaliFile(path, desc, inner) ==
    [path |-> path, head |-> <<<<DotClass, Public, desc>>>>, inner |-> inner]

ClassPool == {D_Client, D_Server, D_Util, D_Helper}

PathNames == <<"f1", "f2", "f3", "f4">>

\* Trees of n files f1..fn, each declaring a class of the pool
Trees(n) ==
    UNION {{[i \in 1..k |-> SmaliFile(PathNames[i], d[i], FALSE)] :
               d \in [1..k -> ClassPool]} : k \in 0..n}

Init ==
    /\ corpus \in Strings(RowPool, MaxRows)
    /\ tree \in Trees(MaxFiles)
    /\ indexFile = NoIndex
    /\ report = NoCsv
    /\ summary = NoCsv
    /\ ret = NoRet
    /\ UnitIdle
    /\ RestIdle

\* Whether load_or_build_class_index reads the cache file and json.loads
\* raises
CacheRejected(force) == indexFile.exists /\ ~force /\ indexFile.kind = "garbage"

\* What load_or_build_class_index gives when it scans the tree
Built(rejected) ==
    [classes |-> index_classes_for_app(tree), scanned |-> TRUE,
     rejected |-> rejected, file |-> WrittenIndex(index_classes_for_app(tree))]

\* What it gives when it returns the cached value
Cached ==
    [classes |-> indexFile.entries, scanned |-> FALSE, rejected |-> FALSE,
     file |-> indexFile]

\* A mutant of load_or_build_class_index: the cache file is never read
load_or_build_always_scanning(force) == Built(FALSE)

\* A mutant of load_or_build_class_index: a cache that cannot be parsed is
\* left as it is and an empty list is returned
load_or_build_keeping_garbage(force) ==
    IF indexFile.exists /\ ~force
    THEN [Cached EXCEPT !.rejected = CacheRejected(force)]
    ELSE Built(FALSE)

\* load_or_build_class_index(app_dir, index_dir, force): what it returns,
\* whether it scanned the tree, whether json.loads raised, and the cache file
\* it leaves.  The cached value is returned if the file is there, force is
\* off and json.loads does not raise; else the tree is scanned and the result
\* saved
load_or_build_class_index(force) ==
    IF indexFile.exists /\ ~force /\ ~CacheRejected(force)
    THEN Cached
    ELSE Built(CacheRejected(force))

\* classes = load_or_build_class_index(app_dir, classes_index_dir, force=False)
IndexForMatch(force) == load_or_build_class_index(FALSE)

\* A mutant of the skip test of match_app: an existing report is rewritten
\* also without force
MatchSkipsNever(force) == FALSE

\* "if out_csv.exists() and not force"
MatchSkips(force) == report.exists /\ ~force

\* match_app(prefix_map, app_dir, classes_index_dir, out_dir, force), with the
\* prefix_map main loaded from the corpus file.  A cached value of the wrong
\* shape is not empty, so the report is opened and its header written, and
\* c["class"] raises in the first round of the loop
MatchApp(force) ==
    IF MatchSkips(force)
    THEN /\ ret' = Ret("match_app", force, "exists", 0, FALSE, FALSE)
         /\ UNCHANGED <<corpus, tree, indexFile, report, summary, unitVars, restVars>>
    ELSE LET got == IndexForMatch(force)
             rows == MatchRows(load_fingerprints(corpus), got.classes)
         IN  /\ indexFile' = got.file
             /\ IF got.file.kind = "wrongshape"
                THEN /\ report' = [WrittenCsv(TRUE, <<>>) EXCEPT !.partial = TRUE]
                     /\ ret' = Ret("match_app", force, "raised", 0, got.scanned, got.rejected)
                ELSE IF got.classes = <<>>
                THEN /\ report' = WrittenCsv(FALSE, <<>>)
                     /\ ret' = Ret("match_app", force, "no_classes", 0, got.scanned, got.rejected)
                ELSE /\ report' = WrittenCsv(TRUE, rows)
                     /\ ret' = Ret("match_app", force, "ok", Len(rows), got.scanned, got.rejected)
             /\ UNCHANGED <<corpus, tree, summary, unitVars, restVars>>

\* A mutant of SummarizeSkips: an existing summary is always written again
SummarizeSkipsNever(force) == FALSE

\* "if out_csv.exists() and not force"
SummarizeSkips(force) == summary.exists /\ ~force

\* summarize_one(report_csv, out_dir, force) on a report main found in reports/
SummarizeOne(force) ==
    /\ report.exists
    /\ IF SummarizeSkips(force)
       THEN /\ ret' = Ret("summarize_one", force, "skipped", -1, FALSE, FALSE)
            /\ UNCHANGED <<corpus, tree, indexFile, report, summary, unitVars, restVars>>
       ELSE LET rows == SummaryRows(ReadReport(report))
            IN  /\ summary' = WrittenCsv(TRUE, rows)
                /\ ret' = Ret("summarize_one", force, "written", Len(rows), FALSE, FALSE)
                /\ UNCHANGED <<corpus, tree, indexFile, report, unitVars, restVars>>

Next ==
    \/ \E force \in BOOLEAN : MatchApp(force)
    \/ \E force \in BOOLEAN : SummarizeOne(force)

Spec == Init /\ [][Next]_vars

(***************************************************************************)
(* process_one_repo on one clone.                                          *)
(***************************************************************************)
\* a.b
I_ab == <<"a", ".", "b">>

\* a
I_a == <<"a">>

EvidenceFile(name, ident, artifact) ==
    [name |-> name, ident |-> ident, artifact |-> artifact]

\* The files a clone is made of, before they get their paths
FilePool ==
    {EvidenceFile(".java", I_ab, <<>>),
     EvidenceFile(".java", I_a, <<>>),
     EvidenceFile(".java", <<>>, <<>>),
     EvidenceFile(".kt", I_ab, <<>>),
     EvidenceFile("AndroidManifest.xml", I_ab, <<>>),
     EvidenceFile("pom.xml", I_ab, I_a),
     EvidenceFile("pom.xml", I_ab, I_ab),
     EvidenceFile("build.gradle", I_ab, <<>>),
     EvidenceFile("build.gradle.kts", I_ab, <<>>)}

RepoPaths == <<"r1", "r2", "r3", "r4">>

\* Clones of up to n files r1..rn
Clones(n) ==
    UNION {{[i \in 1..k |-> [path |-> RepoPaths[i], name |-> d[i].name,
                             ident |-> d[i].ident, artifact |-> d[i].artifact]] :
               d \in [1..k -> FilePool]} : k \in 0..n}

\* The values of --max-files the runs are given
MaxFilesArgs == 0..(MaxRepoFiles - 1) \cup {DefaultMaxFiles}

InitRepo ==
    /\ local_path \in {[exists |-> FALSE, files |-> <<>>]}
                        \cup {[exists |-> TRUE, files |-> fs] : fs \in Clones(MaxRepoFiles)}
    /\ rows_out = <<>>
    /\ args_max_files \in MaxFilesArgs
    /\ futs = <<>>
    /\ loaded = <<>>
    /\ faults = 0
    /\ PoolIdle
    /\ UnitIdle
    /\ PipelineIdle

\* work(row) of make_fingerprints.main: process_one_repo on the row's clone
ProcessOneRepo ==
    /\ fn = "none"
    /\ rows_out' = process_one_repo(RepoA, local_path, args_max_files)
    /\ fn' = "process_one_repo"
    /\ UNCHANGED <<arg, canon, prefixes, local_path, args_max_files, futs, loaded, faults,
                   poolVars, pipelineVars>>

NextRepo == ProcessOneRepo

SpecRepo == InitRepo /\ [][NextRepo]_vars

(***************************************************************************)
(* load_fingerprints on one corpus file.                                   *)
(***************************************************************************)
\* Rows as the corpus file may hold them besides those of RowPool: one whose
\* prefix is padded with blanks, one whose prefix lacks the leading L
CorpusPool ==
    RowPool \cup {FpRow(RepoB, <<" ">> \o P_example \o <<" ">>, "kotlin_package"),
                  FpRow(RepoB, W_com \o <<"/">>, "gradle_group_prefix")}

InitCorpus ==
    /\ corpus \in Strings(CorpusPool, MaxRows)
    /\ tree = <<>>
    /\ indexFile = NoIndex
    /\ report = NoCsv
    /\ summary = NoCsv
    /\ ret = NoRet
    /\ loaded = <<>>
    /\ faults = 0
    /\ PoolIdle
    /\ UnitIdle
    /\ RepoIdle

\* "prefix_map = load_fingerprints(fp_csv)" of main
LoadFingerprints ==
    /\ fn = "none"
    /\ loaded' = load_fingerprints(corpus)
    /\ fn' = "load_fingerprints"
    /\ UNCHANGED <<arg, canon, prefixes, pipelineVars, repoVars, faults, poolVars>>

NextCorpus == LoadFingerprints

SpecCorpus == InitCorpus /\ [][NextCorpus]_vars

(***************************************************************************)
(* The scan of one decoded target: index_classes_for_app over trees whose  *)
(* files differ in the modifiers of their .class record and in whether     *)
(* they lie under a smali* directory nested in another.                    *)
(***************************************************************************)
MaxIndexFiles == 2

Final == <<"f", "i", "n", "a", "l">>

\* The tokens between ".class" and the descriptor: none, one, several
ModifierPool == {<<>>, <<Public>>, <<Public, Final>>}

\* A .smali file whose first line is ".class <mods> <desc>"
SmaliFileWith(path, mods, desc, inner) ==
    [path |-> path, head |-> <<<<DotClass>> \o mods \o <<desc>>>>, inner |-> inner]

IndexTrees(n) ==
    UNION {{[i \in 1..k |-> SmaliFileWith(PathNames[i], m[i], d[i], b[i])] :
               m \in [1..k -> ModifierPool], d \in [1..k -> {D_Client, D_Util}],
               b \in [1..k -> BOOLEAN]} : k \in 0..n}

InitIndex ==
    /\ tree \in IndexTrees(MaxIndexFiles)
    /\ corpus = <<>>
    /\ indexFile = NoIndex
    /\ report = NoCsv
    /\ summary = NoCsv
    /\ ret = NoRet
    /\ UnitIdle
    /\ RestIdle

\* The scan and save of load_or_build_class_index when no cache file exists
IndexClassesForApp ==
    /\ fn = "none"
    /\ ~indexFile.exists
    /\ indexFile' = load_or_build_class_index(FALSE).file
    /\ fn' = "index_classes_for_app"
    /\ UNCHANGED <<arg, canon, prefixes, corpus, tree, report, summary, ret, restVars>>

NextIndex == IndexClassesForApp

SpecIndex == InitIndex /\ [][NextIndex]_vars

(***************************************************************************)
(* make_fingerprints.main over a manifest of two repositories, whose       *)
(* results it appends to the corpus file as the futures complete, followed *)
(* by a match of one target against the corpus file it wrote.              *)
(***************************************************************************)
MaxOrderFiles == 1

\* La/b/C;
D_abC == <<"L", "a", "/", "b", "/", "C", ";">>

\* La/D;
D_aD == <<"L", "a", "/", "D", ";">>

\* The rows load_manifest returns: clone_lib_repos writes one row per
\* (host, repo_path), the host in lower case, so strip() and lower() of
\* process_one_repo leave them as they are
OrderManifest == <<RepoA, RepoB>>

OrderClones ==
    {[exists |-> FALSE, files |-> <<>>]}
        \cup {[exists |-> TRUE, files |-> fs] : fs \in Clones(MaxOrderFiles)}

OrderTree == <<SmaliFile("f1", D_abC, FALSE), SmaliFile("f2", D_aD, FALSE)>>

InitOrder ==
    /\ futs \in {[i \in 1..Len(OrderManifest) |->
                     [row |-> OrderManifest[i], clone |-> c[i], done |-> FALSE]] :
                 c \in [1..Len(OrderManifest) -> OrderClones]}
    /\ workers \in 1..MaxWorkers
    /\ args_max_files = DefaultMaxFiles
    /\ corpus = <<>>
    /\ tree = OrderTree
    /\ indexFile = NoIndex
    /\ report = NoCsv
    /\ summary = NoCsv
    /\ ret = NoRet
    /\ local_path = [exists |-> FALSE, files |-> <<>>]
    /\ rows_out = <<>>
    /\ loaded = <<>>
    /\ faults = 0
    /\ script = "make_fingerprints"
    /\ bad = {}
    /\ upc = <<>>
    /\ wrote = <<>>
    /\ mainWrote = {}
    /\ mainPc = "loop"
    /\ UnitIdle

\* One round of the loop of main over the results: with workers > 1 the
\* future as_completed yields next, any that is not done; else the next row
\* of the manifest.  The rows it returned are appended to the corpus file
Complete(i) ==
    /\ mainPc = "loop"
    /\ ~futs[i].done
    /\ (workers > 1 \/ \A j \in 1..(i - 1) : futs[j].done)
    /\ rows_out' = process_one_repo(futs[i].row, futs[i].clone, args_max_files)
    /\ corpus' = corpus \o rows_out'
    /\ futs' = [futs EXCEPT ![i].done = TRUE]
    /\ mainPc' = IF \A j \in DOMAIN futs' : futs'[j].done THEN "done" ELSE "loop"
    /\ UNCHANGED <<unitVars, tree, indexFile, report, summary, ret, local_path,
                   args_max_files, loaded, faults, script, workers, bad, upc, wrote,
                   mainWrote>>

\* match_fingerprints_in_apks.main on the corpus file make_fingerprints
\* wrote: it stops if no fingerprint is usable, else matches the target
MatchTarget ==
    /\ mainPc = "done"
    /\ ~report.exists
    /\ DOMAIN load_fingerprints(corpus) # {}
    /\ MatchApp(FALSE)

NextOrder == (\E i \in 1..Len(OrderManifest) : Complete(i)) \/ MatchTarget

SpecOrder == InitOrder /\ [][NextOrder]_vars

(***************************************************************************)
(* Runs on one target that may be stopped, between which the target may be *)
(* decoded again and the cache file may be changed from outside.           *)
(***************************************************************************)
RunCorpora ==
    {<<FpRow(RepoA, P_example, "java_package"), FpRow(RepoB, P_net, "java_package")>>,
     <<FpRow(RepoA, P_example, "java_package")>>}

\* Trees of up to n files, each declaring Client or Util
RunTrees(n) ==
    UNION {{[i \in 1..k |-> SmaliFile(PathNames[i], d[i], FALSE)] :
               d \in [1..k -> {D_Client, D_Util}]} : k \in 0..n}

InitRuns ==
    /\ corpus \in RunCorpora
    /\ tree \in RunTrees(MaxRunFiles)
    /\ indexFile = NoIndex
    /\ report = NoCsv
    /\ summary = NoCsv
    /\ ret = NoRet
    /\ UnitIdle
    /\ RestIdle

runFrame == <<unitVars, repoVars, loaded, poolVars>>

\* What a writer that is stopped leaves of a csv file with a header and
\* rows: the empty file open("w") made, or the header and some of the rows
PartialCsv(rows) ==
    {[exists |-> TRUE, header |-> FALSE, rows |-> <<>>, partial |-> TRUE]}
        \cup {[exists |-> TRUE, header |-> TRUE, rows |-> SubSeq(rows, 1, k),
               partial |-> TRUE] : k \in 0..(Len(rows) - 1)}

\* match_app stopped before it returns: in out_json.write_text, which leaves
\* a text json.loads rejects; between the index and the report; or in the
\* "with out_csv.open" block
KillMatchApp(force) ==
    /\ faults < MaxFaults
    /\ ~MatchSkips(force)
    /\ LET got == IndexForMatch(force)
           rows == MatchRows(load_fingerprints(corpus), got.classes)
       IN  /\ \/ /\ got.scanned
                 /\ indexFile' = [exists |-> TRUE, kind |-> "garbage", entries |-> <<>>]
                 /\ UNCHANGED report
              \/ /\ indexFile' = got.file
                 /\ UNCHANGED report
              \/ /\ got.file.kind = "list"
                 /\ got.classes # <<>>
                 /\ indexFile' = got.file
                 /\ report' \in PartialCsv(rows)
           /\ ret' = Ret("match_app", force, "killed", 0, got.scanned, got.rejected)
    /\ faults' = faults + 1
    /\ UNCHANGED <<corpus, tree, summary, runFrame>>

\* summarize_one stopped in its "with out_csv.open" block
KillSummarizeOne(force) ==
    /\ faults < MaxFaults
    /\ report.exists
    /\ ~SummarizeSkips(force)
    /\ summary' \in PartialCsv(SummaryRows(ReadReport(report)))
    /\ ret' = Ret("summarize_one", force, "killed", 0, FALSE, FALSE)
    /\ faults' = faults + 1
    /\ UNCHANGED <<corpus, tree, indexFile, report, runFrame>>

\* The target is decoded again and its tree holds other classes
Redecode ==
    /\ faults < MaxFaults
    /\ tree' \in RunTrees(MaxRunFiles) \ {tree}
    /\ faults' = faults + 1
    /\ UNCHANGED <<corpus, indexFile, report, summary, ret, runFrame>>

\* The cache file is replaced from outside by a JSON list of another shape
SpoilCache ==
    /\ faults < MaxFaults
    /\ indexFile.exists
    /\ indexFile.kind # "wrongshape"
    /\ indexFile' = [exists |-> TRUE, kind |-> "wrongshape", entries |-> <<>>]
    /\ faults' = faults + 1
    /\ UNCHANGED <<corpus, tree, report, summary, ret, runFrame>>

\* make_fingerprints is run again with --force and writes another corpus file
Refingerprint ==
    /\ faults < MaxFaults
    /\ corpus' \in RunCorpora \ {corpus}
    /\ faults' = faults + 1
    /\ UNCHANGED <<tree, indexFile, report, summary, ret, runFrame>>

NextRuns ==
    \/ \E force \in BOOLEAN : MatchApp(force)
    \/ \E force \in BOOLEAN : SummarizeOne(force)
    \/ \E force \in BOOLEAN : KillMatchApp(force)
    \/ \E force \in BOOLEAN : KillSummarizeOne(force)
    \/ Redecode
    \/ SpoilCache
    \/ Refingerprint

SpecRuns == InitRuns /\ [][NextRuns]_vars

(***************************************************************************)
(* main of the three scripts over its list of units: the manifest rows of  *)
(* make_fingerprints.py, the decoded/<sha> directories of                  *)
(* match_fingerprints_in_apks.py, the reports/<sha>.csv files of           *)
(* summarize_reports.py.  With workers > 1 every unit is submitted to a    *)
(* ThreadPoolExecutor and main takes the futures as they complete; else    *)
(* main calls work(...) on one unit after the other.                       *)
(***************************************************************************)
\* The names of the units: sorted(input_dir.iterdir()) and
\* sorted(input_dir.glob("*.csv")) yield each name once
UnitNames == <<"sha1", "sha2", "sha3", "sha4">>

\* --output-data of make_fingerprints.py
CorpusPath == <<"fingerprints.csv">>

\* A mutant of OutPaths: the report is named after the script, not the unit
OutPathsSharedReport(s, sha) ==
    IF s = "match" THEN <<<<"classes_index", sha>>, <<"reports", "report">>>>
    ELSE IF s = "summarize" THEN <<<<"summary-reports", sha>>>>
    ELSE <<>>

\* The files a work(...) call opens for writing, in the order it does:
\* match_app writes classes_index/<sha>.json and reports/<sha>.csv,
\* summarize_one writes summary-reports/<sha>.csv, process_one_repo none
OutPaths(s, sha) ==
    IF s = "match" THEN <<<<"classes_index", sha>>, <<"reports", sha>>>>
    ELSE IF s = "summarize" THEN <<<<"summary-reports", sha>>>>
    ELSE <<>>

Running == {i \in DOMAIN upc : upc[i] = "running"}

\* "if args.workers > 1"
Pooled == workers > 1

\* A match unit can raise: match_app does on a cache file of another shape
InitPool ==
    /\ script \in {"make_fingerprints", "match", "summarize"}
    /\ workers \in 1..MaxWorkers
    /\ \E n \in 1..MaxUnits :
           /\ upc = [i \in 1..n |-> "queued"]
           /\ wrote = [i \in 1..n |-> {}]
           /\ bad \in IF script = "match" THEN SUBSET (1..n) ELSE {{}}
    /\ mainWrote = IF script = "make_fingerprints" THEN {CorpusPath} ELSE {}
    /\ mainPc = "loop"
    /\ loaded = <<>>
    /\ faults = 0
    /\ RepoIdle
    /\ UnitIdle
    /\ PipelineIdle

poolFrame == <<unitVars, pipelineVars, repoVars, loaded, faults, script, workers, bad>>

\* work(...) starts on unit i: a worker of the pool takes the next submitted
\* unit, or main calls it in its loop
Start(i) ==
    /\ upc[i] = "queued"
    /\ \A j \in 1..(i - 1) : upc[j] # "queued"
    /\ IF Pooled
       THEN mainPc \in {"loop", "unwinding"} /\ Cardinality(Running) < workers
       ELSE mainPc = "loop" /\ \A j \in 1..(i - 1) : upc[j] = "collected"
    /\ upc' = [upc EXCEPT ![i] = "running"]
    /\ UNCHANGED <<wrote, mainWrote, mainPc, poolFrame>>

\* The call on unit i writes the next of its files, or one after it when it
\* has nothing to write to the earlier ones (the cached index is reused)
Write(i) ==
    /\ upc[i] = "running"
    /\ LET paths == OutPaths(script, UnitNames[i])
       IN  \E k \in 1..Len(paths) :
               /\ \A m \in k..Len(paths) : paths[m] \notin wrote[i]
               /\ wrote' = [wrote EXCEPT ![i] = @ \cup {paths[k]}]
    /\ UNCHANGED <<upc, mainWrote, mainPc, poolFrame>>

\* The call on unit i returns or raises
Finish(i) ==
    /\ upc[i] = "running"
    /\ upc' = [upc EXCEPT ![i] = IF i \in bad THEN "raised" ELSE "returned"]
    /\ UNCHANGED <<wrote, mainWrote, mainPc, poolFrame>>

\* main gets the result of unit i: fut.result() in the as_completed loop,
\* or the return of work(...).  make_fingerprints.main appends the rows to
\* the corpus file
Collect(i) ==
    /\ mainPc = "loop"
    /\ upc[i] = "returned"
    /\ upc' = [upc EXCEPT ![i] = "collected"]
    /\ mainWrote' = IF script = "make_fingerprints"
                    THEN mainWrote \cup {CorpusPath} ELSE mainWrote
    /\ UNCHANGED <<wrote, mainPc, poolFrame>>

\* The exception of unit i reaches main, where nothing catches it: it
\* leaves the loop.  Out of the "with ThreadPoolExecutor" block it goes once
\* shutdown(wait=True) has let the submitted units finish
Reraise(i) ==
    /\ mainPc = "loop"
    /\ upc[i] = "raised"
    /\ mainPc' = IF Pooled THEN "unwinding" ELSE "aborted"
    /\ UNCHANGED <<upc, wrote, mainWrote, poolFrame>>

Unwound ==
    /\ mainPc = "unwinding"
    /\ \A i \in DOMAIN upc : upc[i] \notin {"queued", "running"}
    /\ mainPc' = "aborted"
    /\ UNCHANGED <<upc, wrote, mainWrote, poolFrame>>

\* log("Done. ...")
Done ==
    /\ mainPc = "loop"
    /\ \A i \in DOMAIN upc : upc[i] = "collected"
    /\ mainPc' = "done"
    /\ UNCHANGED <<upc, wrote, mainWrote, poolFrame>>

NextPool ==
    \/ \E i \in DOMAIN upc : Start(i)
    \/ \E i \in DOMAIN upc : Write(i)
    \/ \E i \in DOMAIN upc : Finish(i)
    \/ \E i \in DOMAIN upc : Collect(i)
    \/ \E i \in DOMAIN upc : Reraise(i)
    \/ Unwound
    \/ Done

SpecPool == InitPool /\ [][NextPool]_vars

(***************************************************************************)
(* Shapes of strings the claims speak of.                                  *)
(***************************************************************************)
\* L<body>; : the form of a class descriptor in a .class record
IsClassDescriptor(d) == Len(d) >= 2 /\ d[1] = "L" /\ d[Len(d)] = ";"

\* Number of '/'-separated segments of the body of descriptor d
NumSegments(d) == 1 + Cardinality({i \in 2..(Len(d) - 1) : d[i] = "/"})

NoDoubleSlash(p) == \A i \in 1..(Len(p) - 1) : ~(p[i] = "/" /\ p[i + 1] = "/")

\* Root marker, non-empty slash-delimited segments, trailing '/'
IsCanonicalPrefix(p) ==
    /\ Len(p) >= 3
    /\ p[1] = "L"
    /\ p[2] # "/"
    /\ p[Len(p)] = "/"
    /\ NoDoubleSlash(p)
    /\ \A i \in 1..Len(p) : p[i] \notin Whitespace \cup {"."}

(***************************************************************************)
(* Claims on the pure functions.                                           *)
(***************************************************************************)
\* C4: for a class descriptor with k >= 2 segments all_prefixes_for_class
\* returns exactly k-1 prefixes, each a strict textual prefix of the next
\* (hence ordered shortest to longest).
C4_ClosureHasKMinus1Prefixes ==
    (fn = "all_prefixes_for_class" /\ IsClassDescriptor(arg) /\ NumSegments(arg) >= 2)
        => /\ Len(prefixes) = NumSegments(arg) - 1
           /\ \A i \in 1..(Len(prefixes) - 1) :
                  IsStrictPrefix(prefixes[i], prefixes[i + 1])

\* A descriptor with three segments got its two prefixes.
C4_Witness ==
    /\ fn = "all_prefixes_for_class"
    /\ arg = <<"L", "a", "/", "a", "/", "a", ";">>
    /\ prefixes = << <<"L", "a", "/">>, <<"L", "a", "/", "a", "/">> >>

\* C5: to_smali_prefix applied to a prefix already in canonical form returns
\* it unchanged.
C5_CanonicalizationIdempotent ==
    (fn = "manifest_package" /\ IsCanonicalPrefix(arg)) => canon = arg

\* C6: every prefix to_smali_prefix emits for a dotted identifier starts with
\* the root marker, ends with '/' and has no two consecutive '/'.
C6_EmittedPrefixWellFormed ==
    (fn = "java_package" /\ canon # <<>>)
        => /\ StartsWith(canon, "L")
           /\ EndsWith(canon, "/")
           /\ NoDoubleSlash(canon)

(***************************************************************************)
(* Claims on matching and summarizing.                                     *)
(***************************************************************************)
RowsOf(file) == {file.rows[i] : i \in 1..Len(file.rows)}

IndexEntries == {indexFile.entries[i] : i \in 1..Len(indexFile.entries)}

\* The rows of the corpus file load_fingerprints keeps
CorpusRows == {corpus[i] : i \in 1..Len(corpus)}

RepoOf(r) == <<r.repo_host, r.repo_path>>

\* Number of positions of seq whose element satisfies P
Count(seq, P(_)) == Cardinality({i \in 1..Len(seq) : P(seq[i])})

\* p is the canonical form of a proper ancestor namespace of descriptor d:
\* a strict textual prefix of d that ends at a '/'
UnderPrefix(d, p) == IsClassDescriptor(d) /\ IsStrictPrefix(p, d) /\ EndsWith(p, "/")

\* The repositories with a fingerprint of prefix p in the corpus
ReposDeclaring(p) == {RepoOf(r) : r \in {x \in CorpusRows : x.smali_prefix = p}}

\* The report is one match_app wrote from a non-empty class index
Matched == report.exists /\ report.header

C1_Corpus == <<FpRow(RepoA, P_net, "java_package")>>

C1_Index == {[class |-> D_Client, path |-> "f1"], [class |-> D_Server, path |-> "f2"]}

\* C1: with the one-fingerprint corpus (Lcom/example/net/, repoA) and the
\* class index {Client in f1, Server in f2}, the report holds exactly two
\* records, one per class, both for repoA, and the summary holds exactly one
\* row, for repoA and Lcom/example/net/, with classes_matched = 2.
C1_EndToEnd ==
    (corpus = C1_Corpus /\ indexFile.exists /\ IndexEntries = C1_Index
        /\ Len(indexFile.entries) = 2)
        => /\ report.exists =>
                 /\ Len(report.rows) = 2
                 /\ {<<r.class, r.class_file>> : r \in RowsOf(report)}
                        = {<<D_Client, "f1">>, <<D_Server, "f2">>}
                 /\ \A r \in RowsOf(report) :
                        RepoOf(r) = <<RepoA.host, RepoA.path>> /\ r.smali_prefix = P_net
           /\ summary.exists =>
                 /\ Len(summary.rows) = 1
                 /\ RepoOf(summary.rows[1]) = <<RepoA.host, RepoA.path>>
                 /\ summary.rows[1].smali_prefix = P_net
                 /\ summary.rows[1].classes_matched = 2

\* The example has been matched and summarized.
C1_Witness ==
    /\ corpus = C1_Corpus
    /\ IndexEntries = C1_Index
    /\ Len(report.rows) = 2
    /\ summary.exists
    /\ Len(summary.rows) = 1
    /\ ret.call = "summarize_one"

\* C2: when several repositories have a fingerprint of the same prefix, a
\* class under that prefix gets exactly one record per such repository:
\* as many records for (class, prefix) as repositories declare the prefix.
C2_OneRecordPerRepository ==
    Matched =>
        \A c \in IndexEntries : \A p \in {r.smali_prefix : r \in CorpusRows} :
            UnderPrefix(c.class, p) =>
                /\ \A repo \in ReposDeclaring(p) :
                       Count(report.rows,
                             LAMBDA r : r.class = c.class /\ r.smali_prefix = p
                                            /\ RepoOf(r) = repo) = 1
                /\ Count(report.rows, LAMBDA r : r.class = c.class /\ r.smali_prefix = p)
                       = Cardinality(ReposDeclaring(p))

\* Client is under Lcom/example/net/, which repoA and repoB both declare,
\* and has its two records.
C2_Witness ==
    /\ Matched
    /\ ReposDeclaring(P_net) = {<<RepoA.host, RepoA.path>>, <<RepoB.host, RepoB.path>>}
    /\ \E c \in IndexEntries : c.class = D_Client
    /\ Count(report.rows, LAMBDA r : r.class = D_Client /\ r.smali_prefix = P_net) = 2

\* C3: a class of a single segment (no '/') has no record in the report,
\* whatever the corpus holds.
C3_SingleSegmentNeverMatched ==
    report.exists => \A r \in RowsOf(report) : Contains(r.class, "/")

\* LHelper; is indexed, the corpus holds the prefix LHelper/, a report with
\* rows was written, and none is for LHelper;.
C3_Witness ==
    /\ Matched
    /\ \E c \in IndexEntries : c.class = D_Helper
    /\ \E r \in CorpusRows : r.smali_prefix = P_Helper
    /\ report.rows # <<>>
    /\ \A r \in RowsOf(report) : r.class # D_Helper

\* C7: the class index never holds a descriptor of exactly one segment.
C7_IndexExcludesSingleSegment ==
    indexFile.exists => \A c \in IndexEntries : Contains(c.class, "/")

C9_NoDuplicateTriple ==
    report.exists =>
        \A i, j \in 1..Len(report.rows) :
            (/\ report.rows[i].class = report.rows[j].class
             /\ report.rows[i].smali_prefix = report.rows[j].smali_prefix
             /\ RepoOf(report.rows[i]) = RepoOf(report.rows[j])) => i = j

\* The index lists Client twice, the corpus holds two fingerprints of repoA
\* for Lcom/example/net/, and the report holds one record for the triple.
C9_Witness ==
    /\ Matched
    /\ Count(indexFile.entries, LAMBDA c : c.class = D_Client) = 2
    /\ Count(corpus, LAMBDA r : r.smali_prefix = P_net
                                    /\ RepoOf(r) = <<RepoA.host, RepoA.path>>) = 2
    /\ Count(report.rows,
             LAMBDA r : r.class = D_Client /\ r.smali_prefix = P_net
                            /\ RepoOf(r) = <<RepoA.host, RepoA.path>>) = 1

\* The records of the report that belong to the group of summary row s
GroupOf(s, rows) ==
    {r \in {rows[i] : i \in 1..Len(rows)} :
        /\ RepoOf(r) = RepoOf(s)
        /\ r.libarary_key = s.libarary_key
        /\ r.library_name = s.library_name
        /\ r.smali_prefix = s.smali_prefix}

\* C10: whenever summarize_one writes a summary, classes_matched of each
\* row is the number of distinct (class, class_file) pairs among the report
\* records of that row's group.
C10_ClassesMatchedCountsDistinctPairs ==
    [][(ret'.call = "summarize_one" /\ ret'.status = "written")
          => \A s \in RowsOf(summary') :
                 s.classes_matched
                     = Cardinality({<<r.class, r.class_file>> :
                                       r \in GroupOf(s, ReadReport(report))})]_vars

\* A summary was written in which repoA's two prefixes have rows with
\* different counts: Client and Util under Lcom/example/, Client alone
\* under Lcom/example/net/.
C10_Witness ==
    /\ ret.call = "summarize_one"
    /\ ret.status = "written"
    /\ \E s, t \in RowsOf(summary) :
           /\ RepoOf(s) = RepoOf(t)
           /\ s.smali_prefix = P_example /\ s.classes_matched = 2
           /\ t.smali_prefix = P_net /\ t.classes_matched = 1

FpsOfClone == CollectFingerprints(local_path.files, args_max_files)

SamePair(r, fp) == r.smali_prefix = fp.smali /\ r.fingerprint_type = fp.typ

\* C12: the rows process_one_repo returns hold each (prefix, evidence kind)
\* pair at most once, and the file a row names is the one of the first
\* detected tuple with that pair.
C12_OneRowPerPairFirstKept ==
    fn = "process_one_repo"
        => /\ \A i, j \in 1..Len(rows_out) :
                  (/\ rows_out[i].smali_prefix = rows_out[j].smali_prefix
                   /\ rows_out[i].fingerprint_type = rows_out[j].fingerprint_type)
                      => i = j
           /\ \A i \in 1..Len(rows_out) :
                  \E k \in 1..Len(FpsOfClone) :
                      /\ SamePair(rows_out[i], FpsOfClone[k])
                      /\ rows_out[i].repo_file_path = FpsOfClone[k].path
                      /\ \A m \in 1..(k - 1) : ~SamePair(rows_out[i], FpsOfClone[m])

\* process_one_repo ran on a clone in which two .java files declare a.b with
\* another file between them, and the one java_package row names the first.
C12_Witness ==
    /\ fn = "process_one_repo"
    /\ Len(local_path.files) = 3
    /\ \A i \in {1, 3} : /\ local_path.files[i].name = ".java"
                         /\ local_path.files[i].ident = I_ab
    /\ local_path.files[2].name = "pom.xml"
    /\ Len(rows_out) = 3
    /\ \E i \in 1..Len(rows_out) :
           /\ rows_out[i].fingerprint_type = "java_package"
           /\ rows_out[i].repo_file_path = "r1"

\* C13: after load_fingerprints, every row of the corpus file whose prefix
\* is in canonical form has its entry in the list under that prefix, as
\* many times as the file holds the row; so a lookup of a prefix returns the
\* fingerprint of every repository whose row declares it.
C13_NoRowDroppedOnCollision ==
    fn = "load_fingerprints"
        => \A i \in 1..Len(corpus) :
               LET p == corpus[i].smali_prefix
               IN  IsCanonicalPrefix(p)
                       => /\ p \in DOMAIN loaded
                          /\ Count(loaded[p], LAMBDA e : e = FpEntry(corpus[i], p))
                                 = Count(corpus, LAMBDA r : r = corpus[i])
                          /\ \A j \in 1..Len(corpus) :
                                 corpus[j].smali_prefix = p
                                     => \E e \in {loaded[p][k] : k \in 1..Len(loaded[p])} :
                                            RepoOf(e) = RepoOf(corpus[j])

\* repoA and repoB both declare Lcom/example/net/, and the lookup of that
\* prefix returns both entries.
C13_Witness ==
    /\ fn = "load_fingerprints"
    /\ P_net \in DOMAIN loaded
    /\ Len(loaded[P_net]) = 2
    /\ {RepoOf(loaded[P_net][k]) : k \in 1..2}
           = {<<RepoA.host, RepoA.path>>, <<RepoB.host, RepoB.path>>}

\* What match_app writes for the classes cs
ReportFor(cs) ==
    IF cs = <<>> THEN WrittenCsv(FALSE, <<>>)
    ELSE WrittenCsv(TRUE, MatchRows(load_fingerprints(corpus), cs))

\* C14: when the cache file exists and json.loads accepts its text, a
\* match_app call without force that gets as far as the class index takes
\* the cached value: the tree is not scanned and the cache file stays as it
\* is; if the value is the list json.dumps wrote, the report is the one of
\* the cached classes.
C14_CachedIndexReused ==
    [][(/\ indexFile.exists /\ indexFile.kind \in {"list", "wrongshape"}
        /\ ~report.exists
        /\ MatchApp(FALSE))
          => /\ ~ret'.scanned
             /\ indexFile' = indexFile
             /\ indexFile.kind = "list" => report' = ReportFor(indexFile.entries)]_vars

\* A call without force returned "ok" from a cached list that is not what a
\* scan of the tree, decoded again since, would give.
C14_Witness ==
    /\ ret.call = "match_app" /\ ~ret.force /\ ret.status = "ok"
    /\ ~ret.scanned
    /\ indexFile.kind = "list"
    /\ indexFile.entries # index_classes_for_app(tree)
    /\ report = ReportFor(indexFile.entries)

\* C15: a match_app call with force=True returns a status and has rebuilt the index
\* from the tree, rewritten the cache file with it, and written the report
\* of the classes now in the tree.
C15_ForcedMatchRebuildsIndex ==
    [][MatchApp(TRUE)
          => /\ ret'.status \in {"ok", "no_classes"}
             /\ ret'.scanned
             /\ indexFile' = WrittenIndex(index_classes_for_app(tree))
             /\ report' = ReportFor(index_classes_for_app(tree))]_vars

\* C16: when the cache file exists and json.loads rejects its text, a
\* match_app call that gets as far as the class index returns a status, not
\* an error: the tree is scanned, the cache file is overwritten with the
\* scanned list, and the report is the one of that list.
C16_UnparseableCacheRebuilt ==
    [][(/\ indexFile.exists /\ indexFile.kind = "garbage"
        /\ \E force \in BOOLEAN : (force \/ ~report.exists) /\ MatchApp(force))
          => /\ ret'.status \in {"ok", "no_classes"}
             /\ ret'.scanned
             /\ indexFile' = WrittenIndex(index_classes_for_app(tree))
             /\ report' = ReportFor(index_classes_for_app(tree))]_vars

\* The first call was stopped while it wrote the cache file; json.loads
\* rejected the file in the next call, which returned "ok" and left the list
\* of the tree's one class in the cache.
C16_Witness ==
    /\ ret.call = "match_app" /\ ret.status = "ok"
    /\ ret.scanned /\ ret.rejected
    /\ report.exists /\ ~report.partial /\ Len(report.rows) >= 1
    /\ indexFile = WrittenIndex(index_classes_for_app(tree))
    /\ Len(indexFile.entries) = 1

\* C17: a call without force whose output file exists returns the skip
\* value ("exists", 0 from match_app; sha, -1 from summarize_one) and
\* changes no file.
C17_SkipChangesNothing ==
    [][(\/ report.exists /\ MatchApp(FALSE)
        \/ summary.exists /\ SummarizeOne(FALSE))
          => /\ \/ ret'.call = "match_app" /\ ret'.status = "exists" /\ ret'.n = 0
                \/ ret'.call = "summarize_one" /\ ret'.status = "skipped" /\ ret'.n = -1
             /\ UNCHANGED <<corpus, tree, indexFile, report, summary>>]_vars

\* match_app was skipped on a target whose report and summary exist and
\* whose tree was decoded again since the cache was written.
C17_Witness ==
    /\ ret.call = "match_app" /\ ret.status = "exists" /\ ~ret.force
    /\ report.exists /\ summary.exists
    /\ indexFile.exists
    /\ indexFile.entries # index_classes_for_app(tree)

\* C18: a call without force whose output file was left partially written
\* by a stopped call does not skip the target.
C18_PartialOutputNotSkipped ==
    [][(\/ report.exists /\ report.partial /\ MatchApp(FALSE)
        \/ summary.exists /\ summary.partial /\ SummarizeOne(FALSE))
          => ret'.status \notin {"exists", "skipped"}]_vars

\* The directories a unit of script s writes into
OutDirs(s) ==
    IF s = "match" THEN {"classes_index", "reports"}
    ELSE IF s = "summarize" THEN {"summary-reports"}
    ELSE {}

\* C19: at every point of every interleaving, no file is written by two
\* units; a unit writes only files named after it in the directories of its
\* script (a match unit its report and its class-index cache, a summarize
\* unit its summary, a make_fingerprints unit none), and the corpus file is
\* written by main only, which writes nothing else.
C19_UnitsWriteDisjointFiles ==
    /\ \A i, j \in DOMAIN upc : i # j => wrote[i] \cap wrote[j] = {}
    /\ \A i \in DOMAIN upc : \A f \in wrote[i] :
           /\ f # CorpusPath
           /\ f[1] \in OutDirs(script)
           /\ f[2] = UnitNames[i]
    /\ mainWrote \subseteq {CorpusPath}
    /\ script # "make_fingerprints" => mainWrote = {}

\* Two match units run at once in a pool of two workers and each has written
\* its cache and its report.
C19_Witness ==
    /\ script = "match" /\ workers = 2
    /\ Len(upc) >= 2
    /\ upc[1] = "running" /\ upc[2] = "running"
    /\ Cardinality(wrote[1]) = 2 /\ Cardinality(wrote[2]) = 2

\* C20: when main has ended, it has logged "Done", and every unit whose
\* processing does not raise has been processed and its result collected,
\* whatever the number of workers.
C20_FailedUnitDoesNotAbortRun ==
    mainPc \notin {"none", "loop", "unwinding"}
        => /\ mainPc = "done"
           /\ \A i \in DOMAIN upc : i \notin bad => upc[i] = "collected"

\* The positions in the report rows of the records of summary row s's group
GroupPositions(s, rows) ==
    {i \in 1..Len(rows) :
        /\ RepoOf(rows[i]) = RepoOf(s)
        /\ rows[i].libarary_key = s.libarary_key
        /\ rows[i].library_name = s.library_name
        /\ rows[i].smali_prefix = s.smali_prefix}

\* C21: whenever summarize_one writes a summary, the sample of each row is
\* the (class, class_file) pair of the first record of the row's group, in
\* report order, whose class is not empty.
C21_SampleIsFirstSeen ==
    [][(ret'.call = "summarize_one" /\ ret'.status = "written")
          => \A s \in RowsOf(summary') :
                 LET rows == ReadReport(report)
                 IN  \E i \in GroupPositions(s, rows) :
                         /\ rows[i].class # <<>>
                         /\ s.sample_class = rows[i].class
                         /\ s.sample_class_file = rows[i].class_file
                         /\ \A j \in GroupPositions(s, rows) :
                                j < i => rows[j].class = <<>>]_vars

\* A summary was written whose row for Lcom/example/net/ counts two classes,
\* Server of f1 and Client of f2, and shows Server of f1.
C21_Witness ==
    /\ ret.call = "summarize_one" /\ ret.status = "written"
    /\ \E s \in RowsOf(summary) :
           /\ s.smali_prefix = P_net
           /\ s.classes_matched = 2
           /\ s.sample_class = D_Server /\ s.sample_class_file = "f1"
    /\ \E r \in RowsOf(report) : r.class = D_Client /\ r.class_file = "f2"

\* C22: whenever summarize_one writes a summary of a report match_app wrote,
\* the row of a (repository, prefix) lists in fingerprint_types the evidence
\* kind of every corpus fingerprint of that repository with that prefix.
C22_SummaryListsEveryKind ==
    [][(ret'.call = "summarize_one" /\ ret'.status = "written")
          => \A s \in RowsOf(summary') : \A row \in CorpusRows :
                 (RepoOf(row) = RepoOf(s) /\ row.smali_prefix = s.smali_prefix)
                     => \E k \in 1..Len(s.fingerprint_types) :
                            s.fingerprint_types[k] = row.fingerprint_type]_vars

\* C23: in a report match_app wrote, every indexed class and every corpus
\* fingerprint whose canonical prefix is a proper ancestor namespace of the
\* class, at whatever depth, have a record: that class, that prefix, that
\* fingerprint's repository.
C23_EveryAncestorFingerprintMatched ==
    Matched =>
        \A c \in IndexEntries : \A row \in CorpusRows :
            (IsCanonicalPrefix(row.smali_prefix) /\ UnderPrefix(c.class, row.smali_prefix))
                => \E r \in RowsOf(report) :
                       /\ r.class = c.class
                       /\ r.smali_prefix = row.smali_prefix
                       /\ RepoOf(r) = RepoOf(row)

\* Lcom/example/net/http/Client; has four segments; repoA declares only
\* Lcom/example/, two levels above the class's package, and the report
\* credits repoA for Client under that prefix.
C23_Witness ==
    /\ Matched
    /\ \A row \in CorpusRows : row.smali_prefix = P_example
    /\ \E r \in RowsOf(report) :
           /\ r.class = D_Client
           /\ r.smali_prefix = P_example
           /\ RepoOf(r) = <<RepoA.host, RepoA.path>>

\* The .class record the scan of a file reads: the first line of the first
\* 20 whose first token is ".class", or none
RecordLines(file) ==
    {i \in 1..Len(file.head) : i <= MaxScanLines /\ file.head[i][1] = DotClass}

FirstRecord(file) ==
    file.head[CHOOSE i \in RecordLines(file) : \A j \in RecordLines(file) : i <= j]

EntriesOfPath(p) == Count(indexFile.entries, LAMBDA e : e.path = p)

\* C24: after the scan, every file with a .class record in its scanned head
\* has an index entry whose descriptor is the final token of that record,
\* whatever the number of modifiers before it.
C24_DescriptorIsFinalToken ==
    fn = "index_classes_for_app" =>
        \A i \in 1..Len(tree) :
            RecordLines(tree[i]) # {} =>
                \E e \in IndexEntries :
                    /\ e.path = tree[i].path
                    /\ e.class = FirstRecord(tree[i])[Len(FirstRecord(tree[i]))]

\* C25: after the scan, no file has more than one entry in the index,
\* wherever its smali* directory lies.
C25_OneEntryPerFile ==
    fn = "index_classes_for_app" =>
        \A i \in 1..Len(tree) : EntriesOfPath(tree[i].path) <= 1

\* The source files in the order detect_java_kotlin_packages meets them:
\* the .java files of the walk, then the .kt files
SourceOrder == Rglob(local_path.files, ".java") \o Rglob(local_path.files, ".kt")

\* How many files the two loops of detect_java_kotlin_packages inspected
InspectedCount ==
    LET java == ScanSources(Rglob(local_path.files, ".java"), "java_package", 0,
                            args_max_files)
        kt == ScanSources(Rglob(local_path.files, ".kt"), "kotlin_package",
                          java.count, args_max_files)
    IN  IF java.capped THEN java.count ELSE kt.count

SourceKinds == {"java_package", "kotlin_package"}

\* C26: every maven_artifact_root row process_one_repo returns holds a
\* single-segment root prefix: root marker, one non-empty segment, and one
\* '/', the trailing one, also when the artifactId contains '.'.
C26_ArtifactRootIsSingleSegment ==
    fn = "process_one_repo" =>
        \A i \in 1..Len(rows_out) :
            rows_out[i].fingerprint_type = "maven_artifact_root"
                => /\ IsCanonicalPrefix(rows_out[i].smali_prefix)
                   /\ Cardinality({k \in 1..Len(rows_out[i].smali_prefix) :
                                      rows_out[i].smali_prefix[k] = "/"}) = 1

\* C27: process_one_repo inspects at most --max-files source files, .java
\* and .kt together, a file without a package declaration counting as one:
\* the java_package and kotlin_package rows name files among the first
\* max_files of the source order only, and with max_files = 0 there is none.
C27_AtMostMaxFilesInspected ==
    (fn = "process_one_repo" /\ local_path.exists) =>
        /\ InspectedCount <= args_max_files
        /\ \A i \in 1..Len(rows_out) :
               rows_out[i].fingerprint_type \in SourceKinds
                   => \E k \in 1..Len(SourceOrder) :
                          /\ k <= args_max_files
                          /\ SourceOrder[k].path = rows_out[i].repo_file_path
        /\ args_max_files = 0
               => \A i \in 1..Len(rows_out) :
                      rows_out[i].fingerprint_type \notin SourceKinds

\* --max-files is 2; the clone holds a .java file without a package
\* declaration, a .java file declaring a.b and a .kt file declaring a.b: the
\* first two are inspected, the .kt file is not, and the rows hold the
\* java_package row of r2 and no kotlin_package row.
C27_Witness ==
    /\ fn = "process_one_repo"
    /\ args_max_files = 2
    /\ Len(local_path.files) = 3
    /\ local_path.files[1].name = ".java" /\ local_path.files[1].ident = <<>>
    /\ local_path.files[2].name = ".java" /\ local_path.files[2].ident = I_ab
    /\ local_path.files[3].name = ".kt"
    /\ InspectedCount = 2
    /\ \E i \in 1..Len(rows_out) :
           /\ rows_out[i].fingerprint_type = "java_package"
           /\ rows_out[i].repo_file_path = "r2"
    /\ \A i \in 1..Len(rows_out) : rows_out[i].fingerprint_type # "kotlin_package"

\* C28: every record of a report pairs an entry of the class index, its
\* class and its file, with a fingerprint of the corpus, its prefix, its
\* repository and its kind; and the record's prefix is a strict textual
\* prefix of the record's class that ends at a '/', so before the class's
\* terminal segment.
C28_EveryRecordIsSound ==
    report.exists =>
        \A r \in RowsOf(report) :
            /\ \E c \in IndexEntries : c.class = r.class /\ c.path = r.class_file
            /\ \E row \in CorpusRows :
                   /\ RowPrefix(row) = r.smali_prefix
                   /\ RepoOf(row) = RepoOf(r)
                   /\ row.repo_url = r.repo_url
                   /\ row.fingerprint_type = r.fingerprint_type
            /\ UnderPrefix(r.class, r.smali_prefix)
            /\ \E k \in (Len(r.smali_prefix) + 1)..(Len(r.class) - 1) : r.class[k] # "/"

\* Util is indexed from f2 and Helper, a class without a package, from f1;
\* the corpus holds Lcom/example/ and LHelper/; the report holds the record
\* of Util from f2 under Lcom/example/ and nothing else.
C28_Witness ==
    /\ Matched
    /\ indexFile.entries = <<[class |-> D_Helper, path |-> "f1"],
                             [class |-> D_Util, path |-> "f2"]>>
    /\ {r.smali_prefix : r \in CorpusRows} = {P_example, P_Helper}
    /\ Len(report.rows) = 1
    /\ report.rows[1].class = D_Util
    /\ report.rows[1].class_file = "f2"
    /\ report.rows[1].smali_prefix = P_example

\* The corpus rows main would have written had the futures completed in
\* submission order
RECURSIVE RowsInSubmissionOrder(_)
RowsInSubmissionOrder(fs) ==
    IF fs = <<>> THEN <<>>
    ELSE process_one_repo(Head(fs).row, Head(fs).clone, args_max_files)
             \o RowsInSubmissionOrder(Tail(fs))

\* C29: the corpus file holds the repositories' rows in the order their
\* futures completed; whatever that order, the report match_app writes for
\* the target holds the set of records it holds for the submission order.
C29_RecordsIndependentOfCompletionOrder ==
    (ret.call = "match_app" /\ ret.status = "ok") =>
        RowsOf(report)
            = RowsOf(WrittenCsv(TRUE, MatchRows(load_fingerprints(RowsInSubmissionOrder(futs)),
                                                indexFile.entries)))

\* repoB's future completed before repoA's: the corpus file holds repoB's
\* rows first; both declare La/b/, and the report credits both for La/b/C;.
C29_Witness ==
    /\ ret.call = "match_app" /\ ret.status = "ok"
    /\ Len(corpus) >= 2
    /\ RepoOf(corpus[1]) = <<RepoB.host, RepoB.path>>
    /\ RepoOf(corpus[Len(corpus)]) = <<RepoA.host, RepoA.path>>
    /\ corpus # RowsInSubmissionOrder(futs)
    /\ \A repo \in {RepoA, RepoB} :
           \E r \in RowsOf(report) :
               r.class = D_abC /\ RepoOf(r) = <<repo.host, repo.path>>

\* The summary summarize_one writes for the report as it is now
FoldOfReport(rep) == WrittenCsv(TRUE, SummaryRows(ReadReport(rep)))

\* C30 as claimed: after every summarizing run, forced or not, on a target
\* whose report and summary are whole files, the summary is the fold of the
\* target's current report.
C30_SummaryIsFoldOfCurrentReport ==
    [][(/\ ret'.call = "summarize_one"
        /\ ret'.status \in {"written", "skipped"}
        /\ ~report.partial /\ ~summary.partial
        /\ \E force \in BOOLEAN : SummarizeOne(force))
          => summary' = FoldOfReport(report')]_vars

\* C30 as the code has it: a summarizing run that is forced, or that finds
\* no summary, leaves the fold of the current report; a run without force
\* that finds a summary leaves that summary as it is, whatever the report
\* has become since.
C30_SummaryIsFoldUnlessSkipped ==
    [][(/\ ret'.call = "summarize_one"
        /\ ret'.status \in {"written", "skipped"}
        /\ ~report.partial /\ ~summary.partial
        /\ \E force \in BOOLEAN : SummarizeOne(force))
          => IF summary.exists /\ ~ret'.force
             THEN summary' = summary /\ ret'.status = "skipped"
             ELSE summary' = FoldOfReport(report') /\ ret'.status = "written"]_vars

\* The corpus file was rebuilt and the target matched again with force after
\* its summary was written; the summarizing run without force that followed
\* skipped the target, and the summary is not the fold of the new report.
C30_Witness ==
    /\ ret.call = "summarize_one" /\ ret.status = "skipped" /\ ~ret.force
    /\ Matched /\ ~report.partial
    /\ summary.exists /\ ~summary.partial
    /\ ReadReport(report) = MatchRows(load_fingerprints(corpus), indexFile.entries)
    /\ summary # FoldOfReport(report)

====
